---- MODULE Spec2Model ----
(***************************************************************************)
(* Batch video tagger (src/batch_video_tagger.py): file discovery in the   *)
(* input directory, the per-item pipeline load template -> compose ->      *)
(* tag -> relocate, the per-run outcome mapping, the directory status      *)
(* report, and the command line program with its exit status.              *)
(*                                                                         *)
(* File names are sequences of one-character strings, so that suffix,      *)
(* stem, lower-casing and sorting are computed on the characters as        *)
(* pathlib computes them.  A directory is a function from the names of its *)
(* entries to records; a file's identity is its name together with its    *)
(* generation number gen (two files of the same name and different gen are *)
(* different originals).                                                   *)
(*                                                                         *)
(* The file system is POSIX: names are case-sensitive and os.rename        *)
(* replaces an existing destination file.  Processed and Output hold       *)
(* regular files only.  While a run is going on nothing but the program   *)
(* changes the three directories, and the template file may change; under  *)
(* main a directory may be missing, or be removed between the construction *)
(* of the BatchVideoTagger and its first use.                              *)
(* SimpleVideoTagger (simple_video_tagger.py) is not part of the sources:  *)
(* write_metadata either writes the tagged file and returns True, returns  *)
(* False, or raises, and load_metadata_with_auto_title adds a title        *)
(* derived from the base name when the template has none.                  *)
(***************************************************************************)
EXTENDS Naturals, Integers, Sequences, FiniteSets, TLC

VARIABLES
    input,        \* self.input_dir: name -> [kind, gen]
    processed,    \* self.processed_dir: name -> [kind, gen]
    output,       \* self.output_dir: name -> [kind, gen, meta]
    template,     \* the metadata template file: [state, content]
    pc,           \* position of process_all_videos / process_single_video
    video_files,  \* process_all_videos: the discovered list (names)
    idx,          \* position of the for loop in video_files (1-based)
    metadata,     \* process_single_video: the composed metadata of the item
    results,      \* process_all_videos: the dict name -> bool, insertion-ordered
    trace,        \* per item begun in this run: the template file it found and
                  \* what write_metadata and shutil.move did for it
    ret,          \* the mapping returned by the last finished run
    runs,         \* number of finished calls of process_all_videos
    changes,      \* number of changes of the template file so far
    faults,       \* number of failed write_metadata and shutil.move calls so far
    start,        \* the three directories as they were when the run started
    fs,           \* what is at the path of each of the three directories
    args,         \* main: the parsed command line, [status, process_all]
    exit_code,    \* main: "none" (the object is used without main),
                  \* "running", "zero" or "nonzero"
    status        \* what show_directory_status reported since the last run
                  \* started

vars == <<input, processed, output, template, pc, video_files, idx, metadata,
          results, trace, ret, runs, changes, faults, start, fs, args,
          exit_code, status>>

----------------------------------------------------------------------------
(* Bounds *)

\* number of calls of process_all_videos in one behaviour
MaxRuns == 2

\* number of entries the input directory holds initially
MaxFiles == 3

\* number of write_metadata and shutil.move calls that fail in one behaviour
MaxFaults == 2

\* number of times the environment changes the template file
MaxTemplateChanges == 1

\* number of entries of the directories the discovery check enumerates
MaxDirEntries == 3

----------------------------------------------------------------------------
(* Characters and names *)

\* the characters file names are made of here, with their code points:
\* " " 32, "-" 45, "." 46, "0".."9" 48..57, "A".."Z" 65..90, "_" 95,
\* "a".."z" 97..122
Digits == << "0", "1", "2", "3", "4", "5", "6", "7", "8", "9" >>

UpperCase ==
    << "A", "B", "C", "D", "E", "F", "G", "H", "I", "J", "K", "L", "M",
       "N", "O", "P", "Q", "R", "S", "T", "U", "V", "W", "X", "Y", "Z" >>

LowerCase ==
    << "a", "b", "c", "d", "e", "f", "g", "h", "i", "j", "k", "l", "m",
       "n", "o", "p", "q", "r", "s", "t", "u", "v", "w", "x", "y", "z" >>

PosIn(seq, c) == CHOOSE i \in 1..Len(seq) : seq[i] = c

IsIn(seq, c) == \E i \in 1..Len(seq) : seq[i] = c

\* ord(c)
Ord(c) ==
    CASE c = " " -> 32
      [] c = "-" -> 45
      [] c = "." -> 46
      [] c = "_" -> 95
      [] IsIn(Digits, c) -> 47 + PosIn(Digits, c)
      [] IsIn(UpperCase, c) -> 64 + PosIn(UpperCase, c)
      [] IsIn(LowerCase, c) -> 96 + PosIn(LowerCase, c)

\* str.lower() on one character: A-Z (65..90) map to a-z
LowerChar(c) == IF IsIn(UpperCase, c) THEN LowerCase[PosIn(UpperCase, c)] ELSE c

\* str.lower()
Lower(s) == [i \in 1..Len(s) |-> LowerChar(s[i])]

\* str.rfind of the dot, as a 1-based position, 0 when there is no dot
RFindDot(s) ==
    IF \E i \in 1..Len(s) : s[i] = "."
    THEN CHOOSE i \in 1..Len(s) : s[i] = "." /\ \A j \in (i+1)..Len(s) : s[j] # "."
    ELSE 0

\* PurePath.suffix: the last dot-component of the name, "" when the only dot
\* leads or ends the name (0 < i < len(name) - 1 with i 0-based)
Suffix(name) ==
    LET i == RFindDot(name) IN
    IF i > 1 /\ i < Len(name) THEN SubSeq(name, i, Len(name)) ELSE <<>>

\* PurePath.stem: the name without its suffix
Stem(name) ==
    LET i == RFindDot(name) IN
    IF i > 1 /\ i < Len(name) THEN SubSeq(name, 1, i - 1) ELSE name

\* str < str: lexicographic by code point (PurePosixPath compares its parts
\* case-sensitively; the entries of one directory differ in the name only)
NameLess(a, b) ==
    \/ Len(a) < Len(b) /\ \A i \in 1..Len(a) : a[i] = b[i]
    \/ \E i \in 1..(IF Len(a) < Len(b) THEN Len(a) ELSE Len(b)) :
          /\ \A j \in 1..(i-1) : a[j] = b[j]
          /\ Ord(a[i]) < Ord(b[i])

\* sorted(S) for a set of names
RECURSIVE Sorted(_)
Sorted(S) ==
    IF S = {} THEN <<>>
    ELSE LET m == CHOOSE x \in S : \A y \in S \ {x} : NameLess(x, y)
         IN  <<m>> \o Sorted(S \ {m})

----------------------------------------------------------------------------
(* Directories *)

File(g) == [kind |-> "file", gen |-> g]
Dir(g)  == [kind |-> "dir", gen |-> g]

EmptyDir == [n \in {} |-> File(0)]

\* create or overwrite entry n of directory d
Put(d, n, v) == [x \in (DOMAIN d) \cup {n} |-> IF x = n THEN v ELSE d[x]]

\* remove entry n of directory d
Remove(d, n) == [x \in (DOMAIN d) \ {n} |-> d[x]]

----------------------------------------------------------------------------
(* File discovery *)

video_extensions ==
    { <<".", "m", "p", "4">>, <<".", "a", "v", "i">>, <<".", "m", "o", "v">>,
      <<".", "m", "k", "v">>, <<".", "w", "m", "v">>, <<".", "f", "l", "v">>,
      <<".", "w", "e", "b", "m">>, <<".", "m", "4", "v">> }

\* faulty variants of the filter: the suffix compared as it is; any file
IsVideoFileNoLower(d, n) == d[n].kind = "file" /\ Suffix(n) \in video_extensions

IsVideoFileAnyExt(d, n) == d[n].kind = "file"

\* the filter of get_video_files, on the entry named n of directory d
IsVideoFile(d, n) == d[n].kind = "file" /\ Lower(Suffix(n)) \in video_extensions

\* get_video_files: the eligible entries of d, sorted
get_video_files(d) == Sorted({n \in DOMAIN d : IsVideoFile(d, n)})

----------------------------------------------------------------------------
(* Metadata template and composition *)

\* a metadata mapping is a set of <<key, value>> pairs, one per key
Keys(m) == {p[1] : p \in m}

\* the template file: absent, present and not JSON, or present with a mapping
Missing == [state |-> "missing", content |-> {}]

Malformed == [state |-> "malformed", content |-> {}]

Valid(m) == [state |-> "valid", content |-> m]

TemplateArtist == { <<"artist", <<"X">> >> }

TemplateTitled == { <<"title", <<"T">> >>, <<"artist", <<"Y">> >> }

TemplateFiles == {Missing, Malformed, Valid(TemplateArtist), Valid(TemplateTitled)}

\* faulty variant: an absent or malformed file loads as an empty mapping
LoadOutcomeLenient(t) == "ok"

\* process_single_video, lines 52-58: what loading the template file gives
LoadOutcome(t) ==
    CASE t.state = "missing" -> "not_found"
      [] t.state = "malformed" -> "raise"
      [] OTHER -> "ok"

\* SimpleVideoTagger: the title derived from the file's base name
DeriveTitle(stem) == stem

\* faulty variant: the content read for the first item of the run is used
\* for every item of the run (tr holds the items begun so far)
json_load_once(t, tr) ==
    IF tr = <<>> \/ tr[1].template.state # "valid"
    THEN t.content
    ELSE tr[1].template.content

\* lines 57-58: json.load of the template file as it is when the item is
\* processed
json_load(t, tr) == t.content

\* faulty variant: no title is added to a template without one
ComposeNoTitle(m, stem) == m

\* SimpleVideoTagger.load_metadata_with_auto_title
Compose(m, stem) ==
    IF "title" \in Keys(m) THEN m ELSE m \cup { <<"title", DeriveTitle(stem)>> }

----------------------------------------------------------------------------
(* Directory status *)

\* the name ends with the word w
EndsWith(n, w) ==
    Len(n) >= Len(w) /\ SubSeq(n, Len(n) - Len(w) + 1, Len(n)) = w

\* the name has the word w somewhere in it
Contains(n, w) ==
    \E k \in 1..(Len(n) - Len(w) + 1) : SubSeq(n, k, k + Len(w) - 1) = w

\* the patterns *.mp4, *.avi and *.mov of line 149, without the star
processed_patterns ==
    { <<".", "m", "p", "4">>, <<".", "a", "v", "i">>, <<".", "m", "o", "v">> }

\* line 149: the three globs of the processed directory; a glob of a path
\* that is not a directory gives nothing
processed_files(f, proc) ==
    IF f["processed"] = "dir"
    THEN {n \in DOMAIN proc : \E w \in processed_patterns : EndsWith(n, w)}
    ELSE {}

\* line 157: self.output_dir.glob("*_tagged.*")
output_files(f, out) ==
    IF f["output"] = "dir"
    THEN {n \in DOMAIN out : Contains(n, <<"_", "t", "a", "g", "g", "e", "d", ".">>)}
    ELSE {}

----------------------------------------------------------------------------
(* The per-item pipeline *)

tagged == <<"_", "t", "a", "g", "g", "e", "d">>

\* faulty variant: the extension is dropped from the output file name
OutputFilenameNoSuffix(name) == Stem(name) \o tagged

\* f"{video_path.stem}_tagged{video_path.suffix}"
OutputFilename(name) == Stem(name) \o tagged \o Suffix(name)

\* tagger.write_metadata(metadata, output_path): what the call can do
TagOutcomes == {"written", "false", "raised"}

\* the output directory after write_metadata on the item named n
WriteMetadata(out, n, g, m, o) ==
    IF o = "written"
    THEN Put(out, OutputFilename(n), [kind |-> "file", gen |-> g, meta |-> m])
    ELSE out

\* faulty variant: the original is moved whatever write_metadata returned
ShouldRelocateAlways(success) == TRUE

\* `if success:` after write_metadata
ShouldRelocate(success) == success

\* shutil.move(video_path, processed_path) with processed_path a file path:
\*   moved           os.rename succeeded; a file of that name in the
\*                   destination is replaced
\*   error           the move raised and changed nothing
\*   error_copied    os.rename raised, the copy to the destination succeeded
\*                   and os.unlink of the source raised (a source directory
\*                   without write permission)
MoveOutcomes == {"moved", "error", "error_copied"}

\* faulty variant: an exception of the move is swallowed
MoveRaisedNever(o) == FALSE

\* whether the move raised (the except clause, lines 90-92)
MoveRaised(o) == o # "moved"

\* faulty variant: the original is copied and stays in the input directory
MoveInputKeep(inp, n, o) == inp

\* the input directory after the move of entry n
MoveInput(inp, n, o) == IF o = "moved" THEN Remove(inp, n) ELSE inp

\* the processed directory after the move of entry n of inp
MoveProcessed(proc, inp, n, o) ==
    IF o \in {"moved", "error_copied"} THEN Put(proc, n, inp[n]) ELSE proc

\* faulty variant: the new entry is put first
DictSetFront(d, k, v) == <<[name |-> k, success |-> v]>> \o d

\* results[video_file.name] = success
DictSet(d, k, v) ==
    IF \E i \in 1..Len(d) : d[i].name = k
    THEN [i \in 1..Len(d) |-> IF d[i].name = k THEN [name |-> k, success |-> v] ELSE d[i]]
    ELSE Append(d, [name |-> k, success |-> v])

\* faulty variant: a failed item is tried again
NextIdxRetry(i, success) == IF success THEN i + 1 ELSE i

\* faulty variant: the loop stops at the first failed item
NextIdxAbort(i, success) == IF success THEN i + 1 ELSE Len(video_files) + 1

\* the for loop of process_all_videos goes on to the next item whatever the outcome
NextIdx(i, success) == i + 1

----------------------------------------------------------------------------
(* Initial states *)

a_mp4 == <<"a", ".", "m", "p", "4">>

B_MOV == <<"B", ".", "M", "O", "V">>

c_mkv == <<"c", ".", "m", "k", "v">>

n_txt == <<"n", ".", "t", "x", "t">>

d_avi == <<"d", ".", "a", "v", "i">>

\* what the input directory may hold when the batch starts: three videos, a
\* text file, and a directory whose name ends in a video extension
BatchPool ==
    [n \in {a_mp4, B_MOV, c_mkv, n_txt, d_avi} |->
        IF n = d_avi THEN Dir(1) ELSE File(1)]

\* what an earlier run left behind: nothing, or the original a.mp4 of
\* generation 0 and its tagged counterpart
Leftovers ==
    { [processed |-> EmptyDir, output |-> EmptyDir],
      [processed |-> Put(EmptyDir, a_mp4, File(0)),
       output |-> Put(EmptyDir, OutputFilename(a_mp4),
                      [kind |-> "file", gen |-> 0,
                       meta |-> Compose(TemplateArtist, Stem(a_mp4))])] }

Snapshot == [input |-> input, processed |-> processed, output |-> output]

\* main, lines 196-202: --status, or neither --status nor --process-all
StatusRequested == args.status \/ ~args.process_all

\* main, line 198: --process-all without --status
ProcessAllRequested == ~args.status /\ args.process_all

\* self.input_dir, self.processed_dir, self.output_dir
Directories == {"input", "processed", "output"}

\* show_directory_status has not been called
NoStatus ==
    [state |-> "none", input_videos |-> <<>>, processed_files |-> {},
     output_files |-> {}]

\* BatchVideoTagger.__init__: the three directories exist
Init ==
    /\ \E S \in SUBSET (DOMAIN BatchPool) :
          /\ Cardinality(S) <= MaxFiles
          /\ input = [n \in S |-> BatchPool[n]]
    /\ \E l \in Leftovers : processed = l.processed /\ output = l.output
    /\ template \in TemplateFiles
    /\ pc = "idle"
    /\ video_files = <<>>
    /\ idx = 1
    /\ metadata = {}
    /\ results = <<>>
    /\ trace = <<>>
    /\ ret = <<>>
    /\ runs = 0
    /\ faults = 0
    /\ changes = 0
    /\ start = Snapshot
    /\ fs = [d \in Directories |-> "dir"]
    /\ args = [status |-> FALSE, process_all |-> FALSE]
    /\ exit_code = "none"
    /\ status = NoStatus

----------------------------------------------------------------------------
(* Actions *)

\* process_all_videos, lines 96-108: discovery, the early return on an empty
\* list, the empty results dict
StartRun ==
    /\ pc = "idle"
    /\ runs < MaxRuns
    /\ exit_code = "running" => (ProcessAllRequested /\ runs = 0)
    /\ fs["input"] = "dir"
    /\ video_files' = get_video_files(input)
    /\ start' = Snapshot
    /\ results' = <<>>
    /\ trace' = <<>>
    /\ idx' = 1
    /\ metadata' = {}
    /\ IF video_files' = <<>>
       THEN pc' = "idle" /\ ret' = <<>> /\ runs' = runs + 1
       ELSE pc' = "loop" /\ UNCHANGED <<ret, runs>>
    /\ status' = NoStatus
    /\ UNCHANGED <<input, processed, output, template, changes, faults, fs, args,
                   exit_code>>

\* process_single_video returns `success` and process_all_videos stores it
\* (lines 111-117)
Record(name, success) ==
    /\ results' = DictSet(results, name, success)
    /\ idx' = NextIdx(idx, success)
    /\ pc' = "loop"
    /\ metadata' = {}

\* process_single_video, lines 43-65: the template file is looked for and
\* loaded for this item, and the metadata composed
BeginItem ==
    /\ pc = "loop"
    /\ idx <= Len(video_files)
    /\ LET name == video_files[idx]
           lo == LoadOutcome(template)
       IN  /\ trace' = Append(trace, [name |-> name, template |-> template,
                                      tag |-> "none", move |-> "none"])
           /\ CASE lo = "not_found" -> Record(name, FALSE)
                [] lo = "raise" -> Record(name, FALSE)
                [] OTHER ->
                      /\ metadata' = Compose(json_load(template, trace), Stem(name))
                      /\ pc' = "tagging"
                      /\ UNCHANGED <<results, idx>>
    /\ UNCHANGED <<input, processed, output, template, video_files, ret, runs, changes,
                   faults, start, fs, args, exit_code, status>>

\* process_single_video, lines 67-71 and 86-92: write_metadata writes the
\* tagged file, returns False or raises
Tag ==
    /\ pc = "tagging"
    /\ \E o \in TagOutcomes :
          LET name == video_files[idx] IN
          /\ o = "written" => fs["output"] = "dir"
          /\ (o # "written" /\ fs["output"] = "dir") => faults < MaxFaults
          /\ faults' = IF o = "written" \/ fs["output"] # "dir"
                        THEN faults ELSE faults + 1
          /\ output' = WriteMetadata(output, name, input[name].gen, metadata, o)
          /\ trace' = [trace EXCEPT ![Len(trace)].tag = o]
          /\ IF o = "raised"
             THEN Record(name, FALSE)
             ELSE IF ShouldRelocate(o = "written")
                  THEN pc' = "relocating" /\ UNCHANGED <<results, idx, metadata>>
                  ELSE Record(name, FALSE)
    /\ UNCHANGED <<input, processed, template, video_files, ret, runs, changes, start,
                   fs, args, exit_code, status>>

\* process_single_video, lines 72-85 and 90-92: the original is moved to the
\* processed directory; an exception of the move is caught
Relocate ==
    /\ pc = "relocating"
    /\ \E o \in MoveOutcomes :
          LET name == video_files[idx] IN
          /\ o \in {"moved", "error_copied"} => fs["processed"] = "dir"
          /\ (o # "moved" /\ fs["processed"] = "dir") => faults < MaxFaults
          /\ faults' = IF o = "moved" \/ fs["processed"] # "dir"
                        THEN faults ELSE faults + 1
          /\ input' = MoveInput(input, name, o)
          /\ processed' = MoveProcessed(processed, input, name, o)
          /\ trace' = [trace EXCEPT ![Len(trace)].move = o]
          /\ IF MoveRaised(o)
             THEN Record(name, FALSE)
             ELSE Record(name, TRUE)
    /\ UNCHANGED <<output, template, video_files, ret, runs, changes, start, fs, args,
                   exit_code, status>>

\* process_all_videos, lines 119-134: the loop is over, the summary is
\* printed and results returned
Return ==
    /\ pc = "loop"
    /\ idx > Len(video_files)
    /\ ret' = results
    /\ runs' = runs + 1
    /\ pc' = "idle"
    /\ UNCHANGED <<input, processed, output, template, video_files, idx,
                   metadata, results, trace, changes, faults, start, fs, args,
                   exit_code, status>>

\* the environment replaces, removes or creates the template file while a
\* run is going on; the file is read at the start of an item only, so a
\* change at any other moment is the same as a change before the next item
TemplateChange ==
    /\ pc = "loop"
    /\ idx <= Len(video_files)
    /\ changes < MaxTemplateChanges
    /\ changes' = changes + 1
    /\ template' \in TemplateFiles \ {template}
    /\ UNCHANGED <<input, processed, output, pc, video_files, idx, metadata,
                   results, trace, ret, runs, faults, start, fs, args, exit_code,
                   status>>

\* show_directory_status, lines 136-162: the videos of the input directory,
\* the files of the processed directory matching *.mp4, *.avi or *.mov and
\* the files of the output directory matching *_tagged.*; an exception of
\* get_video_files goes to the caller, and in main ends the process
ShowDirectoryStatus ==
    /\ pc = "idle"
    /\ status.state = "none"
    /\ exit_code = "running" => StatusRequested
    /\ exit_code \in {"none", "running"}
    /\ IF fs["input"] = "dir"
       THEN /\ status' = [state |-> "shown",
                          input_videos |-> get_video_files(input),
                          processed_files |-> processed_files(fs, processed),
                          output_files |-> output_files(fs, output)]
            /\ IF exit_code = "running"
               THEN exit_code' = "zero" /\ pc' = "exited"
               ELSE UNCHANGED <<exit_code, pc>>
       ELSE /\ status' = [NoStatus EXCEPT !.state = "raised"]
            /\ IF exit_code = "running"
               THEN exit_code' = "nonzero" /\ pc' = "exited"
               ELSE UNCHANGED <<exit_code, pc>>
    /\ UNCHANGED <<input, processed, output, template, video_files, idx, metadata,
                   results, trace, ret, runs, changes, faults, start, fs, args>>

Next == StartRun \/ BeginItem \/ Tag \/ Relocate \/ Return \/ TemplateChange

Spec == Init /\ [][Next]_vars

\* the batch object with its status report: show_directory_status may be
\* called whenever no run is going on
NextStatus == Next \/ ShowDirectoryStatus

SpecStatus == Init /\ [][NextStatus]_vars

----------------------------------------------------------------------------
(* The command line program: main *)

\* the order in which __init__ creates the directories (lines 26-28)
MkdirOrder == <<"input", "processed", "output">>

\* mkdir(exist_ok=True) raises when a regular file is at the path
MkdirRaises(f) == \E d \in Directories : f[d] = "file"

\* the paths after __init__: a missing directory is created, unless a
\* mkdir before it has raised
Mkdirs(f) ==
    [d \in Directories |->
        IF /\ f[d] = "absent"
           /\ \A i, j \in 1..3 :
                 (MkdirOrder[j] = d /\ i < j) => f[MkdirOrder[i]] # "file"
        THEN "dir" ELSE f[d]]

\* faulty variant: the process ends with a non-zero status when an item failed
ExitStatusOfItems(r) ==
    IF \E i \in 1..Len(r) : ~r[i].success THEN "nonzero" ELSE "zero"

\* main returns after process_all_videos returned: the mapping is not looked at
ExitStatus(r) == "zero"

\* the states in which main is entered: at most one of the three paths is
\* missing or taken by a regular file, and any command line
InitMain ==
    /\ fs \in [Directories -> {"dir", "absent", "file"}]
    /\ Cardinality({d \in Directories : fs[d] # "dir"}) <= 1
    /\ IF fs["input"] = "dir"
       THEN \E S \in SUBSET (DOMAIN BatchPool) :
               /\ Cardinality(S) <= MaxFiles
               /\ input = [n \in S |-> BatchPool[n]]
       ELSE input = EmptyDir
    /\ IF fs["processed"] = "dir" /\ fs["output"] = "dir"
       THEN \E l \in Leftovers : processed = l.processed /\ output = l.output
       ELSE processed = EmptyDir /\ output = EmptyDir
    /\ template \in TemplateFiles
    /\ args \in [status : BOOLEAN, process_all : BOOLEAN]
    /\ exit_code = "running"
    /\ pc = "main"
    /\ video_files = <<>>
    /\ idx = 1
    /\ metadata = {}
    /\ results = <<>>
    /\ trace = <<>>
    /\ ret = <<>>
    /\ runs = 0
    /\ changes = 0
    /\ faults = 0
    /\ start = Snapshot
    /\ status = NoStatus

\* main, lines 193-194 and 205-207: the BatchVideoTagger is constructed; an
\* exception of mkdir ends the process with status 1
MainBegin ==
    /\ pc = "main"
    /\ exit_code = "running"
    /\ fs' = Mkdirs(fs)
    /\ IF MkdirRaises(fs)
       THEN exit_code' = "nonzero" /\ pc' = "exited"
       ELSE pc' = "idle" /\ UNCHANGED exit_code
    /\ UNCHANGED <<input, processed, output, template, video_files, idx, metadata,
                   results, trace, ret, runs, changes, faults, start, args, status>>

\* the environment removes one of the directories after the construction
\* and before main goes on
DirVanish ==
    /\ pc = "idle"
    /\ exit_code = "running"
    /\ runs = 0
    /\ \E d \in Directories :
          /\ fs[d] = "dir"
          /\ fs' = [fs EXCEPT ![d] = "absent"]
          /\ input' = IF d = "input" THEN EmptyDir ELSE input
          /\ processed' = IF d = "processed" THEN EmptyDir ELSE processed
          /\ output' = IF d = "output" THEN EmptyDir ELSE output
    /\ UNCHANGED <<template, pc, video_files, idx, metadata, results, trace, ret,
                   runs, changes, faults, start, args, exit_code, status>>

\* main, lines 199 and 205-207, with lines 96 and 35: iterdir of an input
\* path that is not a directory raises, process_all_videos lets the
\* exception through and main ends the process with status 1
StartRunRaises ==
    /\ pc = "idle"
    /\ exit_code = "running"
    /\ ProcessAllRequested
    /\ runs = 0
    /\ fs["input"] # "dir"
    /\ exit_code' = "nonzero"
    /\ pc' = "exited"
    /\ UNCHANGED <<input, processed, output, template, video_files, idx, metadata,
                   results, trace, ret, runs, changes, faults, start, fs, args,
                   status>>

\* main, lines 199 and 210-211: process_all_videos has returned and main
\* returns
MainExit ==
    /\ pc = "idle"
    /\ exit_code = "running"
    /\ ProcessAllRequested
    /\ runs = 1
    /\ exit_code' = ExitStatus(ret)
    /\ pc' = "exited"
    /\ UNCHANGED <<input, processed, output, template, video_files, idx, metadata,
                   results, trace, ret, runs, changes, faults, start, fs, args,
                   status>>

NextMain ==
    MainBegin \/ DirVanish \/ StartRun \/ StartRunRaises \/ BeginItem \/ Tag
        \/ Relocate \/ Return \/ TemplateChange \/ ShowDirectoryStatus
        \/ MainExit

SpecMain == InitMain /\ [][NextMain]_vars

----------------------------------------------------------------------------
(* File discovery on its own: every small directory, one discovery *)

DiscoveryNames ==
    { a_mp4, B_MOV, c_mkv, n_txt, d_avi,
      <<"e", ".", "M", "k", "V">>,
      <<"f", ".", "w", "m", "v">>,
      <<"g", ".", "F", "L", "V">>,
      <<"h", ".", "w", "e", "b", "m">>,
      <<"i", ".", "m", "4", "v">>,
      <<"a", "-", "b", ".", "m", "p", "4">>,
      <<"a", ".", "m", "p", "4", ".", "t", "x", "t">>,
      <<"a", ".", "t", "x", "t", ".", "m", "o", "v">>,
      <<".", "m", "p", "4">>,
      <<"m", "p", "4">>,
      <<"a", ".", "m", "p", "4", ".">>,
      <<"j", ".", "m", "p", "3">> }

InitDiscovery ==
    /\ \E S \in SUBSET DiscoveryNames :
          /\ Cardinality(S) <= MaxDirEntries
          /\ input \in [S -> {File(1), Dir(1)}]
    /\ processed = EmptyDir
    /\ output = EmptyDir
    /\ template = Valid(TemplateArtist)
    /\ pc = "idle"
    /\ video_files = <<>>
    /\ idx = 1
    /\ metadata = {}
    /\ results = <<>>
    /\ trace = <<>>
    /\ ret = <<>>
    /\ runs = 0
    /\ changes = 0
    /\ faults = 0
    /\ start = Snapshot
    /\ fs = [d \in Directories |-> "dir"]
    /\ args = [status |-> FALSE, process_all |-> FALSE]
    /\ exit_code = "none"
    /\ status = NoStatus

SpecDiscovery == InitDiscovery /\ [][StartRun]_vars

----------------------------------------------------------------------------
(* Vocabulary of the properties *)

\* a call of process_all_videos has returned and no other has started
Finished == pc = "idle" /\ runs > 0

\* the item at position i of the run found the template file unusable
TemplateFailed(i) == trace[i].template.state # "valid"

\* the Tag Applicator was called for item i and failed
TagFailed(i) == trace[i].tag \in {"false", "raised"}

\* the Tag Applicator was called for item i and succeeded
TagSucceeded(i) == trace[i].tag = "written"

\* the move of item i's original was tried and failed
MoveFailed(i) == trace[i].move \in {"error", "error_copied"}

\* item i went through tagging and relocation without a fault
Unfaulted(i) == trace[i].tag = "written" /\ trace[i].move = "moved"

\* entry n of directory d is the very file it was in directory d0
SameFile(d, d0, n) == n \in DOMAIN d /\ n \in DOMAIN d0 /\ d[n] = d0[n]

\* the number of Failure entries of an outcome mapping
Failures(m) == Cardinality({i \in 1..Len(m) : ~m[i].success})

\* nothing was added to, removed from or replaced in Processed under name n
ProcessedUntouched(n) ==
    IF n \in DOMAIN start.processed
    THEN SameFile(processed, start.processed, n)
    ELSE n \notin DOMAIN processed

\* the tagged counterpart of the original n of this run is in Output
TaggedInOutput(n) ==
    LET t == OutputFilename(n) IN
    /\ t \in DOMAIN output
    /\ output[t].kind = "file"
    /\ output[t].gen = start.input[n].gen

\* the recognized extensions, as words
ExtensionWords ==
    { <<"m", "p", "4">>, <<"a", "v", "i">>, <<"m", "o", "v">>,
      <<"m", "k", "v">>, <<"w", "m", "v">>, <<"f", "l", "v">>,
      <<"w", "e", "b", "m">>, <<"m", "4", "v">> }

\* the capital of a lower-case letter, any other character itself
Capital(c) ==
    IF \E k \in 1..26 : LowerCase[k] = c
    THEN UpperCase[CHOOSE k \in 1..26 : LowerCase[k] = c]
    ELSE c

\* the recognized extensions in every mix of upper and lower case
ExtensionSpellings ==
    UNION { { [i \in 1..Len(w) |-> IF i \in S THEN Capital(w[i]) ELSE w[i]] :
                S \in SUBSET (1..Len(w)) } : w \in ExtensionWords }

\* the name is <non-empty base name>.<recognized extension, in any case>
HasRecognizedExtension(n) ==
    \E k \in 2..(Len(n) - 1) :
        n[k] = "." /\ SubSeq(n, k + 1, Len(n)) \in ExtensionSpellings

\* the eligible entries of directory d
Eligible(d) == {n \in DOMAIN d : d[n].kind = "file" /\ HasRecognizedExtension(n)}

\* a comes before b in name order
RECURSIVE Precedes(_, _)
Precedes(a, b) ==
    IF b = <<>> THEN FALSE
    ELSE IF a = <<>> THEN TRUE
    ELSE IF Head(a) = Head(b) THEN Precedes(Tail(a), Tail(b))
    ELSE Ord(Head(a)) < Ord(Head(b))

----------------------------------------------------------------------------
(* C1: partial-failure isolation *)

\* what C1 concludes for a finished run whose item k failed in tagging
IsolatedFailure(k) ==
    /\ Len(trace) = Len(video_files)
    /\ Len(ret) = Len(video_files)
    /\ Failures(ret) = 1
    /\ \A j \in 1..Len(ret) :
          /\ ret[j].name = video_files[j]
          /\ ret[j].success = (j # k)

\* C1 as stated: in every finished run of N discovered items in which the Tag
\* Applicator call failed for exactly one item k and succeeded for every other
\* item it was called for, the returned mapping has exactly one Failure entry
\* (item k) and N-1 Success entries, and every item after k was attempted.
C1_AsStated ==
    Finished =>
        \A k \in 1..Len(trace) :
            (TagFailed(k) /\ \A j \in (1..Len(trace)) \ {k} : TagSucceeded(j))
                => IsolatedFailure(k)

\* C1 amended: the same, where for every other item both the Tag Applicator
\* call and the move of the original succeeded.
C1_PartialFailureIsolation ==
    Finished =>
        \A k \in 1..Len(trace) :
            (TagFailed(k) /\ \A j \in (1..Len(trace)) \ {k} : Unfaulted(j))
                => IsolatedFailure(k)

\* C1 witness: a finished run of three items whose second item failed in
\* tagging while the first and the third went through.
C1_Witness ==
    /\ Finished
    /\ Len(video_files) = 3
    /\ Len(trace) = 3
    /\ Unfaulted(1) /\ TagFailed(2) /\ Unfaulted(3)

----------------------------------------------------------------------------
(* C2: directory-state invariant *)

NoOriginalInBoth ==
    \A n \in (DOMAIN input) \cap (DOMAIN processed) : input[n] # processed[n]

SuccessIsRelocated ==
    \A i \in 1..Len(results) :
        results[i].success =>
            LET n == results[i].name IN
            /\ ~SameFile(input, start.input, n)
            /\ SameFile(processed, start.input, n)
            /\ TaggedInOutput(n)

\* C2: in every reachable state no original file is in both Input and
\* Processed, and every item recorded as Success has its original absent from
\* Input and present in Processed and its tagged counterpart in Output.
C2_DirectoryState == NoOriginalInBoth /\ SuccessIsRelocated

----------------------------------------------------------------------------
(* C3: an unusable template file *)

----------------------------------------------------------------------------
(* C4: an unusable template file leaves the directories alone *)

\* C4: as long as every item of the run has found the template file missing
\* or malformed, Input, Processed and Output are what they were when the run
\* started.
C4_TemplateFailureLeavesDirectories ==
    (\A i \in 1..Len(trace) : TemplateFailed(i)) =>
        /\ input = start.input
        /\ processed = start.processed
        /\ output = start.output

\* C4 witness: a finished run of at least two items that all found the
\* template file missing.
C4_Witness ==
    /\ Finished
    /\ Len(video_files) >= 2
    /\ Len(trace) = Len(video_files)
    /\ \A i \in 1..Len(trace) : trace[i].template = Missing

----------------------------------------------------------------------------
(* C5: a tagging failure is local and non-destructive *)

\* C5: an item for which the Tag Applicator failed has its original still in
\* Input, nothing put into Processed under its name, no move attempted, and
\* the outcome Failure.
C5_TaggingFailureIsLocal ==
    \A i \in 1..Len(trace) :
        TagFailed(i) =>
            LET n == trace[i].name IN
            /\ SameFile(input, start.input, n)
            /\ ProcessedUntouched(n)
            /\ trace[i].move = "none"
            /\ i <= Len(results)
            /\ results[i] = [name |-> n, success |-> FALSE]

\* C5 witness: a finished run in which write_metadata failed for an item
\* whose name Processed already held, and a later item went through.
C5_Witness ==
    /\ Finished
    /\ \E i, j \in 1..Len(trace) :
          /\ TagFailed(i)
          /\ trace[i].name \in DOMAIN start.processed
          /\ i < j
          /\ Unfaulted(j)

----------------------------------------------------------------------------
(* C6: relocation failure *)

\* C6: an item whose tagging succeeded and whose move failed is recorded as
\* Failure, its original is still in Input, its tagged artifact is still in
\* Output, and the run goes on to every later item.
C6_RelocationFailure ==
    /\ \A i \in 1..Len(trace) :
          MoveFailed(i) =>
              LET n == trace[i].name IN
              /\ TagSucceeded(i)
              /\ i <= Len(results)
              /\ results[i] = [name |-> n, success |-> FALSE]
              /\ SameFile(input, start.input, n)
              /\ TaggedInOutput(n)
    /\ (Finished /\ \E i \in 1..Len(trace) : MoveFailed(i)) =>
          Len(trace) = Len(video_files)

\* C6 witness: a finished run whose first item's move raised without
\* changing anything and whose second item was processed after it.
C6_Witness ==
    /\ Finished
    /\ Len(trace) >= 2
    /\ trace[1].move = "error"
    /\ trace[2].tag # "none"

----------------------------------------------------------------------------
(* C7: destination collision *)

\* C7: an item whose move is tried while Processed already holds a file of
\* its name is recorded as Failure, its original stays in Input and the file
\* that was in Processed is still there.
C7_CollisionIsMoveFailure ==
    \A i \in 1..Len(trace) :
        LET n == trace[i].name IN
        (trace[i].move # "none" /\ n \in DOMAIN start.processed) =>
            /\ i <= Len(results)
            /\ ~results[i].success
            /\ SameFile(input, start.input, n)
            /\ SameFile(processed, start.processed, n)

----------------------------------------------------------------------------
(* C8: file discovery *)

\* C8: once discovery has run, the discovered list holds exactly the entries
\* of the input directory that are regular files with a recognized extension
\* (in any letter case), each once, in ascending name order; it is empty when
\* there is none.
C8_Discovery ==
    (pc # "idle" \/ runs > 0) =>
        /\ {video_files[i] : i \in 1..Len(video_files)} = Eligible(start.input)
        /\ Len(video_files) = Cardinality(Eligible(start.input))
        /\ \A i, j \in 1..Len(video_files) :
              i < j => Precedes(video_files[i], video_files[j])

\* C8 witness: a directory with an upper-case video file, a lower-case one
\* and a directory named like a video gave the two files, upper case first.
C8_Witness ==
    /\ pc = "loop"
    /\ Len(video_files) = 2
    /\ video_files[1] = B_MOV
    /\ \E n \in DOMAIN input : input[n].kind = "dir" /\ HasRecognizedExtension(n)

----------------------------------------------------------------------------
(* C9: the outcome mapping *)

\* C9: the mapping a run returns has exactly one entry per discovered item,
\* keyed by file name, in discovery order; while the run is going the
\* mapping is that of the items done so far.
C9_OutcomeMapping ==
    /\ Len(results) <= Len(video_files)
    /\ \A i \in 1..Len(results) : results[i].name = video_files[i]
    /\ Finished =>
          /\ Len(ret) = Len(video_files)
          /\ \A i \in 1..Len(ret) : ret[i].name = video_files[i]

\* C9 witness: a returned mapping of three entries, Failure, Success, Failure.
C9_Witness ==
    /\ Finished
    /\ Len(ret) = 3
    /\ ~ret[1].success /\ ret[2].success /\ ~ret[3].success

----------------------------------------------------------------------------
(* C10: empty-input idempotence *)

\* C10: a run that started with no eligible file in Input processed nothing,
\* returned the empty mapping and left the three directories as they were;
\* and a run in which every item succeeded leaves no eligible file in Input,
\* so the run after it is such a run.
C10_EmptyInput ==
    /\ (Finished /\ Eligible(start.input) = {}) =>
          /\ ret = <<>>
          /\ trace = <<>>
          /\ input = start.input
          /\ processed = start.processed
          /\ output = start.output
    /\ (Finished /\ \A i \in 1..Len(ret) : ret[i].success) =>
          Eligible(input) = {}

\* C10 witness: the second run, after a first run without any failure that
\* moved originals, returned the empty mapping with a text file still in Input.
C10_Witness ==
    /\ Finished
    /\ runs = 2
    /\ ret = <<>>
    /\ faults = 0 /\ changes = 0 /\ template.state = "valid"
    /\ \E n \in DOMAIN processed : processed[n].gen = 1
    /\ n_txt \in DOMAIN input

----------------------------------------------------------------------------
(* C11: the end state of a run without failures *)

\* <base name>_tagged<extension> of a name with an extension: the text
\* before the last dot, the word _tagged, the last dot and what follows it
TaggedName(n) ==
    LET k == CHOOSE k \in 1..Len(n) :
                 n[k] = "." /\ \A j \in (k + 1)..Len(n) : n[j] # "."
    IN  SubSeq(n, 1, k - 1) \o tagged \o SubSeq(n, k, Len(n))

\* C11: after a run in which every item found a valid template and had its
\* tagging and its move succeed, Processed holds every eligible original of
\* Input under its name, Output holds a file <base name>_tagged<extension>
\* made from each of them, every outcome is Success, and the entries of
\* Input that were not eligible are still there, unchanged.
C11_AllSuccessEndState ==
    (Finished /\ \A i \in 1..Len(trace) : Unfaulted(i)) =>
        /\ \A n \in Eligible(start.input) :
              /\ SameFile(processed, start.input, n)
              /\ n \notin DOMAIN input
              /\ LET t == TaggedName(n) IN
                 /\ t \in DOMAIN output
                 /\ output[t].kind = "file"
                 /\ output[t].gen = start.input[n].gen
        /\ Len(ret) = Cardinality(Eligible(start.input))
        /\ \A i \in 1..Len(ret) : ret[i].success
        /\ \A n \in (DOMAIN start.input) \ Eligible(start.input) :
              SameFile(input, start.input, n)
        /\ DOMAIN input = (DOMAIN start.input) \ Eligible(start.input)

\* C11 witness: a run over a.mp4, B.MOV and a text file ended with both
\* videos processed without a failure and the text file still in Input.
C11_Witness ==
    /\ Finished
    /\ DOMAIN start.input = {a_mp4, B_MOV, n_txt}
    /\ Len(trace) = 2
    /\ \A i \in 1..2 : Unfaulted(i)
    /\ DOMAIN input = {n_txt}
    /\ DOMAIN processed = {a_mp4, B_MOV}

----------------------------------------------------------------------------
(* C12: the exit status of main with --process-all *)

\* main has ended after being asked to process all videos
ProcessAllExited == pc = "exited" /\ ProcessAllRequested

\* a directory could not be created, or the input directory could not be
\* listed
RunLevelError == MkdirRaises(fs) \/ fs["input"] # "dir"

\* the template file was missing all the time the process ran
TemplateMissingThroughout == template = Missing /\ changes = 0

----------------------------------------------------------------------------
(* C13: metadata composition *)

\* the name without its extension: the text before the last dot
BaseName(n) ==
    LET k == CHOOSE k \in 1..Len(n) :
                 n[k] = "." /\ \A j \in (k + 1)..Len(n) : n[j] # "."
    IN  SubSeq(n, 1, k - 1)

\* m is what the claim wants composed from the template content t for the
\* item named n
ComposedAsClaimed(t, n, m) ==
    /\ t \subseteq m
    /\ Keys(m) = Keys(t) \cup {"title"}
    /\ \A p, q \in m : p[1] = q[1] => p = q
    /\ "title" \notin Keys(t) =>
          \E p \in m :
              /\ p[1] = "title"
              /\ p[2] # <<>>
              /\ p[2] = DeriveTitle(BaseName(n))

\* C13: the metadata composed for an item, and the metadata of the tagged
\* file written for it, hold every entry of the template the item found,
\* title included when the template has one, and otherwise a non-empty
\* title derived from the item's base name; nothing else.
C13_Composition ==
    /\ pc \in {"tagging", "relocating"} =>
          ComposedAsClaimed(trace[Len(trace)].template.content,
                            trace[Len(trace)].name, metadata)
    /\ \A i \in 1..Len(trace) :
          TagSucceeded(i) =>
              LET t == OutputFilename(trace[i].name) IN
              /\ t \in DOMAIN output
              /\ ComposedAsClaimed(trace[i].template.content, trace[i].name,
                                   output[t].meta)

\* C13 witness: a finished run that tagged one item from the template
\* without a title and another from the template with a title.
C13_Witness ==
    /\ Finished
    /\ \E i, j \in 1..Len(trace) :
          /\ TagSucceeded(i) /\ trace[i].template = Valid(TemplateArtist)
          /\ TagSucceeded(j) /\ trace[j].template = Valid(TemplateTitled)
          /\ <<"title", <<"T">>>> \in output[OutputFilename(trace[j].name)].meta

----------------------------------------------------------------------------
(* C14: the status of directories that do not exist *)

\* C14: a call of show_directory_status made while one of the three
\* directories does not exist ends without an error, and reports nothing
\* for every directory that does not exist.
C14_StatusToleratesMissingDirectories ==
    (status.state # "none" /\ \E d \in Directories : fs[d] = "absent") =>
        /\ status.state = "shown"
        /\ fs["input"] = "absent" => status.input_videos = <<>>
        /\ fs["processed"] = "absent" => status.processed_files = {}
        /\ fs["output"] = "absent" => status.output_files = {}

----------------------------------------------------------------------------
(* C17: the counts of the status report *)

\* the Processed count is the number of originals with a recognized
\* extension in Processed
ProcessedCountIsOriginals ==
    Cardinality(status.processed_files) = Cardinality(Eligible(processed))

\* the Output count is the number of tagged files in Output
OutputCountIsTagged ==
    Cardinality(status.output_files) = Cardinality(DOMAIN output)

\* C17: a status report counts in Processed the originals with any of the
\* eight recognized extensions in any letter case, and in Output the tagged
\* files; after a run from empty Processed and Output in which all N items
\* succeeded, both counts are N.
C17_StatusCounts ==
    status.state = "shown" =>
        /\ ProcessedCountIsOriginals
        /\ OutputCountIsTagged
        /\ (/\ Finished
            /\ runs = 1
            /\ start.processed = EmptyDir /\ start.output = EmptyDir
            /\ \A i \in 1..Len(trace) : Unfaulted(i)) =>
              /\ Cardinality(status.processed_files) = Len(video_files)
              /\ Cardinality(status.output_files) = Len(video_files)

----------------------------------------------------------------------------
(* C15: one item at a time, in discovery order *)

\* C15: the items begun so far are the first items of the discovered list,
\* in its order and each once; every item before the last one begun has its
\* outcome recorded; and tagging or moving goes on only for the last item
\* begun, which has no outcome yet.
C15_Sequential ==
    /\ Len(trace) <= Len(video_files)
    /\ \A i \in 1..Len(trace) : trace[i].name = video_files[i]
    /\ \A i, j \in 1..Len(trace) : i # j => trace[i].name # trace[j].name
    /\ \A i \in 1..(Len(trace) - 1) :
          i <= Len(results) /\ results[i].name = trace[i].name
    /\ pc \in {"tagging", "relocating"} =>
          /\ idx = Len(trace)
          /\ Len(results) = Len(trace) - 1
    /\ pc \in {"idle", "loop"} =>
          /\ Len(results) = Len(trace)
          /\ idx = Len(trace) + 1

\* C15 witness: the third item is being tagged after the first ended as
\* Success and the second as Failure.
C15_Witness ==
    /\ pc = "tagging"
    /\ idx = 3
    /\ Len(results) = 2
    /\ results[1].success
    /\ ~results[2].success

----------------------------------------------------------------------------
(* C16: when the template file is read *)

----------------------------------------------------------------------------
(* C18: what a run leaves for the next one *)

\* the names recorded as Failure in an outcome mapping
FailedNames(m) == {m[i].name : i \in {j \in 1..Len(m) : ~m[j].success}}

\* C18: when a run has finished, the eligible files in Input are exactly
\* the files whose outcome is Failure, and the run after it discovers
\* exactly those.
C18_RerunConsistency ==
    /\ Finished => Eligible(input) = FailedNames(ret)
    /\ (pc # "idle" /\ runs >= 1) =>
          {video_files[i] : i \in 1..Len(video_files)} = FailedNames(ret)

\* C18 witness: the second run has discovered the one file that failed in
\* the first run, which had processed another file.
C18_Witness ==
    /\ pc = "loop"
    /\ runs = 1
    /\ idx = 1
    /\ Len(ret) >= 2
    /\ \E i \in 1..Len(ret) : ret[i].success
    /\ Len(video_files) = 1
    /\ video_files[1] \in FailedNames(ret)

====
